---- MODULE Spec2Model ----
(***************************************************************************)
(* Time-accounting engine of the Daily Study Tracker (src/src/App.jsx):    *)
(* the persisted document, its load/save path, the Start / Pause /         *)
(* Reset-today session lifecycle, the per-day totals and the statistics    *)
(* derived from them.                                                      *)
(*                                                                         *)
(* Representation.                                                         *)
(*  - A timestamp is a number of milliseconds since the epoch.             *)
(*  - A date key "YYYY-MM-DD" is represented by the ordinal of the UTC day *)
(*    it names (days since 1970-01-01): the ISO formatting is injective    *)
(*    and its lexicographic order is the order of the ordinals.            *)
(*  - A JavaScript value that the code inspects with typeof / Array.isArray*)
(*    / truthiness is a record whose field t is its kind ("undefined",     *)
(*    "null", "number", "string", "boolean", "array", "object"); the other *)
(*    fields carry the payload and hold a fixed filler when the kind has   *)
(*    none.                                                                *)
(*  - Day records of the modelled blobs always carry a segments array of   *)
(*    numeric {start, end} pairs.                                          *)
(*  - The browser's time zone has at most one change of offset; Date's     *)
(*    local-time methods follow LocalTime and UTC of ECMA-262.             *)
(*  - Number arithmetic is exact on integers; the quotient and the product *)
(*    of the progress percentages are rounded as IEEE-754 doubles.         *)
(***************************************************************************)
EXTENDS Integers, Sequences, FiniteSets, TLC

VARIABLES
    store,        \* window.localStorage[STORAGE_KEY]
    data,         \* React state `data`
    now,          \* React state `now`
    newTodoText,  \* React state `newTodoText`
    view,         \* what the last render gave the handlers: isRunning, todayKey
    clock,        \* Date.now()
    pc,           \* "mount": constructed, effects not yet run; "ready"
    op,           \* the last intent and the timestamps it read
    hist,         \* history of the Start / Pause intents issued so far
    fuel,         \* number of intents the run may still issue
    zone,         \* the time zone of the browser
    saved         \* the persist effect: "pending", "written" or "failed"

vars ==
    <<store, data, now, newTodoText, view, clock, pc, op, hist, fuel, zone, saved>>

-----------------------------------------------------------------------------
(* Bounds of the model *)

MaxDay == 1          \* the clock ranges over days 0 .. MaxDay
MaxSteps == 2        \* intents per run of the whole application
MaxTimerSteps == 4   \* intents per run of the timer alone
MaxTodos == 2        \* tasks in the list
MaxStreakDays == 3   \* days before today with a record, for the streak alone
MaxHistoryDays == 8  \* days before today that may have a record, for the history alone
MaxResetSteps == 1   \* intents of a run, for Reset-today over a streak
MaxStartSteps == 1   \* intents of a run, for the start of the page

-----------------------------------------------------------------------------
(* Program constants *)

PRODUCTIVE_MINUTES_FOR_STREAK == 30
StreakCap == 365
MsPerDay == 24 * 60 * 60 * 1000

Max(a, b) == IF a >= b THEN a ELSE b
Min(a, b) == IF a <= b THEN a ELSE b

\* new Date(timestamp).toISOString().slice(0, 10)
getDateKey(timestamp) == timestamp \div MsPerDay

getDefaultSettings == [dailyGoalMinutes |-> 240, weeklyGoalHours |-> 20]

-----------------------------------------------------------------------------
(* Local time of Date.  A time zone has one transition: its offset from UTC  *)
(* is z.before until the instant z.at and z.after from then on.              *)

MsPerHour == 60 * 60 * 1000

TimeZone(before, after, at) == [before |-> before, after |-> after, at |-> at]

\* the offset in force at the UTC time t, or at the local time t; a local
\* time that occurs twice or not at all takes the offset before the transition
LocalTZA(z, t, isUTC) ==
    IF isUTC THEN (IF t < z.at THEN z.before ELSE z.after)
    ELSE IF t - z.before < z.at THEN z.before
    ELSE IF t - z.after >= z.at THEN z.after
    ELSE z.before

LocalTime(z, t) == t + LocalTZA(z, t, TRUE)
UTC(z, t) == t - LocalTZA(z, t, FALSE)

\* d.setDate(d.getDate() - 1): the same local time on the previous local date
SetPreviousDate(z, t) == UTC(z, LocalTime(z, t) - MsPerDay)

-----------------------------------------------------------------------------
(* JavaScript values of the document's fields *)

FieldNames == {"version", "days", "currentSession", "todos", "settings"}

NumberValue(n) == [t |-> "number", n |-> n]
DaysValue(kind, recs) == [t |-> kind, recs |-> recs]
SessionValue(kind, dateKey, start) == [t |-> kind, dateKey |-> dateKey, start |-> start]
TodosValue(kind, items) == [t |-> kind, items |-> items]
SettingsValue(kind, f) == [t |-> kind, f |-> f]

NoFields == [k \in {} |-> 0]

\* the value of a field the object does not have
Undefined(k) ==
    CASE k = "version"        -> [t |-> "undefined", n |-> 0]
      [] k = "days"           -> DaysValue("undefined", NoFields)
      [] k = "currentSession" -> SessionValue("undefined", 0, 0)
      [] k = "todos"          -> TodosValue("undefined", <<>>)
      [] k = "settings"       -> SettingsValue("undefined", NoFields)

Null(k) == [Undefined(k) EXCEPT !.t = "null"]

\* !!v for the kinds the model uses (no 0, "" or false payloads occur)
Truthy(v) == v.t \notin {"undefined", "null"}

\* getEmptyData leaving currentSession out of the document
getEmptyDataWithoutSession ==
    [ top            |-> "object",
      version        |-> NumberValue(3),
      days           |-> DaysValue("object", NoFields),
      currentSession |-> Undefined("currentSession"),
      todos          |-> TodosValue("array", <<>>),
      settings       |-> SettingsValue("object", getDefaultSettings) ]

getEmptyData ==
    [ top            |-> "object",
      version        |-> NumberValue(3),
      days           |-> DaysValue("object", NoFields),
      currentSession |-> Null("currentSession"),
      todos          |-> TodosValue("array", <<>>),
      settings       |-> SettingsValue("object", getDefaultSettings) ]

\* { ...a, ...b } on objects given as functions from keys to values
Spread(a, b) ==
    [k \in (DOMAIN a) \cup (DOMAIN b) |-> IF k \in DOMAIN b THEN b[k] ELSE a[k]]

-----------------------------------------------------------------------------
(* The stored blob, JSON.stringify and JSON.parse *)

\* kind: "missing" (getItem gives null), "empty" (""), "invalid" (not JSON),
\* or the kind of the JSON value the text denotes; o: the members of an object.
BlobValue(kind, o) == [kind |-> kind, o |-> o]

\* JSON.stringify(data): members whose value is undefined are left out, and
\* an array is written as its elements only.
JSONstringify(d) ==
    IF d.top = "array"
    THEN BlobValue("array", NoFields)
    ELSE BlobValue("object",
                   [k \in {f \in FieldNames : d[f].t # "undefined"} |-> d[k]])

\* JSON.parse(raw) for a text that parses to an object or an array
JSONparse(raw) ==
    [k \in FieldNames \cup {"top"} |->
        IF k = "top" THEN raw.kind
        ELSE IF k \in DOMAIN raw.o THEN raw.o[k] ELSE Undefined(k)]

\* loadInitialData starting every page load without an open session
loadInitialDataPaused(raw) ==
    IF raw.kind \in {"missing", "empty"} THEN getEmptyData
    ELSE IF raw.kind = "invalid" THEN getEmptyData
    ELSE IF raw.kind \notin {"object", "array"} THEN getEmptyData
    ELSE
      LET parsed == JSONparse(raw) IN
      [ parsed EXCEPT
          !.days = IF ~Truthy(@) \/ @.t \notin {"object", "array"}
                   THEN DaysValue("object", NoFields) ELSE @,
          !.currentSession = Null("currentSession"),
          !.todos = IF @.t # "array" THEN TodosValue("array", <<>>) ELSE @,
          !.settings = IF ~Truthy(@) \/ @.t \notin {"object", "array"}
                       THEN SettingsValue("object", getDefaultSettings)
                       ELSE SettingsValue("object", Spread(getDefaultSettings, @.f)),
          !.version = NumberValue(3) ]

loadInitialData(raw) ==
    IF raw.kind \in {"missing", "empty"} THEN getEmptyData        \* !raw
    ELSE IF raw.kind = "invalid" THEN getEmptyData               \* parse throws
    ELSE IF raw.kind \notin {"object", "array"} THEN getEmptyData \* !parsed || typeof
    ELSE
      LET parsed == JSONparse(raw) IN
      [ parsed EXCEPT
          !.days = IF ~Truthy(@) \/ @.t \notin {"object", "array"}
                   THEN DaysValue("object", NoFields) ELSE @,
          !.todos = IF @.t # "array" THEN TodosValue("array", <<>>) ELSE @,
          !.settings = IF ~Truthy(@) \/ @.t \notin {"object", "array"}
                       THEN SettingsValue("object", getDefaultSettings)
                       ELSE SettingsValue("object", Spread(getDefaultSettings, @.f)),
          !.version = NumberValue(3) ]

\* a save that writes the empty document whatever the document is
saveDataEmpty(d) == JSONstringify(getEmptyData)

\* window.localStorage after saveData(data)
saveData(d) == JSONstringify(d)

-----------------------------------------------------------------------------
(* Time aggregation *)

RECURSIVE SumSegments(_)
SumSegments(segments) ==
    IF segments = <<>> THEN 0
    ELSE Max(0, Head(segments).end - Head(segments).start)
         + SumSegments(Tail(segments))

\* data.days[dateKey] is an object
HasDay(d, dateKey) == d.days.t = "object" /\ dateKey \in DOMAIN d.days.recs

getTotalMsForDate(d, dateKey, t) ==
    IF ~HasDay(d, dateKey) THEN 0
    ELSE SumSegments(d.days.recs[dateKey].segments)
         + (IF Truthy(d.currentSession) /\ d.currentSession.dateKey = dateKey
            THEN Max(0, t - d.currentSession.start) ELSE 0)

getCurrentSessionMs(d, t) ==
    IF ~Truthy(d.currentSession) THEN 0
    ELSE Max(0, t - d.currentSession.start)

-----------------------------------------------------------------------------
(* IEEE-754 double arithmetic, for the quotient and product of the progress  *)
(* computation.  A non-negative real is a sequence of bits: IntegerBits bits *)
(* before the binary point, then the bits after it.                          *)

Significand == 53
IntegerBits == 24
ChunkBits == 16

RECURSIVE LeadingZeros(_, _)
\* zero bits after the binary point of r / g before its first one, 0 < r < g
LeadingZeros(r, g) == IF 2 * r >= g THEN 0 ELSE 1 + LeadingZeros(2 * r, g)

RECURSIVE FractionRest(_, _, _)
\* (r * 2^n) mod g
FractionRest(r, g, n) ==
    IF n = 0 \/ r = 0 THEN r
    ELSE IF n = 1 THEN (2 * r) % g
    ELSE FractionRest(FractionRest(r, g, n \div 2), g, n - n \div 2)

\* the first n bits after the binary point of r / g, 0 <= r < g
FractionBits(r, g, n) ==
    [i \in 1..n |-> (2 * FractionRest(r, g, i - 1)) \div g]

RECURSIVE BitsOf(_, _)
\* the integer n in width bits, most significant first
BitsOf(n, width) ==
    IF width = 0 THEN <<>> ELSE BitsOf(n \div 2, width - 1) \o <<n % 2>>

RECURSIVE ValueOf(_)
ValueOf(bits) ==
    IF bits = <<>> THEN 0
    ELSE 2 * ValueOf(SubSeq(bits, 1, Len(bits) - 1)) + bits[Len(bits)]

\* bits + 1 in the last place
Increment(bits) ==
    LET zeros == {i \in 1..Len(bits) : bits[i] = 0} IN
    IF zeros = {} THEN [i \in 1..Len(bits) |-> 0]
    ELSE LET z == CHOOSE i \in zeros : \A j \in zeros : j <= i
         IN [i \in 1..Len(bits) |-> IF i < z THEN bits[i] ELSE IF i = z THEN 1 ELSE 0]

RECURSIVE ScaleFrom(_, _, _)
\* m * bits + carry in the places of bits, ChunkBits bits at a time from the last
ScaleFrom(bits, m, carry) ==
    IF bits = <<>> THEN <<>>
    ELSE LET k == IF Len(bits) < ChunkBits THEN Len(bits) ELSE ChunkBits
             v == m * ValueOf(SubSeq(bits, Len(bits) - k + 1, Len(bits))) + carry
         IN ScaleFrom(SubSeq(bits, 1, Len(bits) - k), m, v \div (2 ^ k))
            \o BitsOf(v % (2 ^ k), k)

Scale(bits, m) == ScaleFrom(bits, m, 0)

\* round to nearest, ties to even, to Significand significant bits
RoundToDouble(bits, inexact) ==
    LET ones == {i \in 1..Len(bits) : bits[i] = 1} IN
    IF ones = {} THEN bits
    ELSE
      LET first == CHOOSE i \in ones : \A j \in ones : i <= j
          last == first + Significand - 1
      IN IF Len(bits) <= last THEN bits
         ELSE
           LET kept == SubSeq(bits, 1, last)
               sticky == inexact \/ \E i \in ones : i > last + 1
               up == bits[last + 1] = 1 /\ (sticky \/ bits[last] = 1)
           IN IF up THEN Increment(kept) ELSE kept

\* a / b for integers a >= 0, b > 0
Divide(a, b) ==
    LET r == a % b
        n == IF r = 0 THEN 0
             ELSE (IF a >= b THEN 0 ELSE LeadingZeros(r, b)) + Significand + 1
    IN RoundToDouble(BitsOf(a \div b, IntegerBits) \o FractionBits(r, b, n),
                     FractionRest(r, b, n) # 0)

Multiply(bits, m) == RoundToDouble(Scale(bits, m), FALSE)

\* Math.round(x): floor(x + 0.5)
MathRound(bits) ==
    ValueOf(SubSeq(bits, 1, IntegerBits))
    + (IF Len(bits) > IntegerBits THEN bits[IntegerBits + 1] ELSE 0)

-----------------------------------------------------------------------------
(* Derived statistics *)

\* Math.min(100, Math.round((totalMs / goalMs) * 100)), 0 for a goal of 0
ProgressPct(totalMs, goalMs) ==
    IF goalMs = 0 THEN 0
    ELSE Min(100, MathRound(Multiply(Divide(totalMs, goalMs), 100)))

RECURSIVE StreakFrom(_, _, _, _, _)
\* the loop of computeCurrentStreak from its i-th iteration, the Date d at date
StreakFrom(d, t, z, date, i) ==
    IF i >= StreakCap THEN 0
    ELSE IF getTotalMsForDate(d, getDateKey(date), t)
               >= PRODUCTIVE_MINUTES_FOR_STREAK * 60 * 1000
         THEN 1 + StreakFrom(d, t, z, SetPreviousDate(z, date), i + 1)
         ELSE 0

\* new Date(todayKey) is the UTC midnight that begins the day of the key
computeCurrentStreak(d, t, z) == StreakFrom(d, t, z, getDateKey(t) * MsPerDay, 0)

\* data.settings?.dailyGoalMinutes ?? 240 and its weekly counterpart
SettingOr(d, k, default) ==
    IF Truthy(d.settings) /\ k \in DOMAIN d.settings.f THEN d.settings.f[k] ELSE default

dailyGoalMs(d) == SettingOr(d, "dailyGoalMinutes", 240) * 60 * 1000
weeklyGoalMs(d) == SettingOr(d, "weeklyGoalHours", 20) * 60 * 60 * 1000

todayTotalMs(d, t) == getTotalMsForDate(d, getDateKey(t), t)
dailyProgress(d, t) == ProgressPct(todayTotalMs(d, t), dailyGoalMs(d))

RECURSIVE SortAscending(_)
\* the sort with its comparator reversed: the oldest key first
SortAscending(keys) ==
    IF keys = {} THEN <<>>
    ELSE LET bottom == CHOOSE k \in keys : \A j \in keys : k <= j
         IN <<bottom>> \o SortAscending(keys \ {bottom})

RECURSIVE SortDescending(_)
\* Object.keys(data.days).sort((a, b) => a < b ? 1 : a > b ? -1 : 0)
SortDescending(keys) ==
    IF keys = {} THEN <<>>
    ELSE LET top == CHOOSE k \in keys : \A j \in keys : j <= k
         IN <<top>> \o SortDescending(keys \ {top})

allDateKeys(d) == SortDescending(DOMAIN d.days.recs)

\* allDateKeys.slice(0, 7)
historyKeys(d) == SubSeq(allDateKeys(d), 1, Min(7, Len(allDateKeys(d))))

RECURSIVE SumTotals(_, _, _)
SumTotals(d, keys, t) ==
    IF keys = <<>> THEN 0
    ELSE getTotalMsForDate(d, Head(keys), t) + SumTotals(d, Tail(keys), t)

\* allDateKeys.slice(0, 7).map((dateKey) => ({ dateKey, totalMs }))
historyItems(d, t) ==
    LET keys == historyKeys(d)
    IN [i \in 1..Len(keys) |->
          [dateKey |-> keys[i], totalMs |-> getTotalMsForDate(d, keys[i], t)]]

RECURSIVE SumItems(_)
\* historyItems.reduce((sum, item) => sum + item.totalMs, 0)
SumItems(items) ==
    IF items = <<>> THEN 0 ELSE Head(items).totalMs + SumItems(Tail(items))

weeklyTotalMs(d, t) == SumTotals(d, historyKeys(d), t)
weeklyProgress(d, t) == ProgressPct(weeklyTotalMs(d, t), weeklyGoalMs(d))

-----------------------------------------------------------------------------
(* The render: what the handlers close over *)

Render(d, t, z) ==
    LET items == historyItems(d, t)
    IN [ isRunning     |-> Truthy(d.currentSession),
         todayKey      |-> getDateKey(t),
         currentStreak |-> computeCurrentStreak(d, t, z),
         historyItems  |-> items,
         weeklyTotalMs |-> SumItems(items) ]

-----------------------------------------------------------------------------
(* State updaters of the handlers *)

DayRecord(segments) == [segments |-> segments]

\* { ...days, [dateKey]: record }
WithDay(days, dateKey, record) ==
    DaysValue("object",
              [k \in (DOMAIN days.recs) \cup {dateKey} |->
                  IF k = dateKey THEN record ELSE days.recs[k]])

\* the updater of handleStart
StartUpdate(prev, dateKey, startTime) ==
    [prev EXCEPT
        !.top = "object",
        !.days = IF dateKey \in DOMAIN prev.days.recs
                 THEN DaysValue("object", prev.days.recs)
                 ELSE WithDay(prev.days, dateKey, DayRecord(<<>>)),
        !.currentSession = SessionValue("object", dateKey, startTime)]

\* handlePause filing the segment under the day of its end
PauseUpdateUnderEndDay(prev, endTime) ==
    IF ~Truthy(prev.currentSession) THEN prev
    ELSE
      LET dateKey == getDateKey(endTime)
          start == prev.currentSession.start
          day == IF dateKey \in DOMAIN prev.days.recs
                 THEN prev.days.recs[dateKey] ELSE DayRecord(<<>>)
          newSegments == IF endTime > start
                         THEN Append(day.segments, [start |-> start, end |-> endTime])
                         ELSE day.segments
      IN [prev EXCEPT
            !.top = "object",
            !.days = WithDay(prev.days, dateKey, DayRecord(newSegments)),
            !.currentSession = Null("currentSession")]

\* handlePause keeping a segment whose end is not after its start
PauseUpdateKeepingEmpty(prev, endTime) ==
    IF ~Truthy(prev.currentSession) THEN prev
    ELSE
      LET dateKey == prev.currentSession.dateKey
          start == prev.currentSession.start
          day == IF dateKey \in DOMAIN prev.days.recs
                 THEN prev.days.recs[dateKey] ELSE DayRecord(<<>>)
          newSegments == Append(day.segments, [start |-> start, end |-> endTime])
      IN [prev EXCEPT
            !.top = "object",
            !.days = WithDay(prev.days, dateKey, DayRecord(newSegments)),
            !.currentSession = Null("currentSession")]

\* handlePause comparing with >= where the code compares with >
PauseUpdateKeepingZeroWidth(prev, endTime) ==
    IF ~Truthy(prev.currentSession) THEN prev
    ELSE
      LET dateKey == prev.currentSession.dateKey
          start == prev.currentSession.start
          day == IF dateKey \in DOMAIN prev.days.recs
                 THEN prev.days.recs[dateKey] ELSE DayRecord(<<>>)
          newSegments == IF endTime >= start
                         THEN Append(day.segments, [start |-> start, end |-> endTime])
                         ELSE day.segments
      IN [prev EXCEPT
            !.top = "object",
            !.days = WithDay(prev.days, dateKey, DayRecord(newSegments)),
            !.currentSession = Null("currentSession")]

\* handlePause putting the new segment first in the day's list
PauseUpdatePrepending(prev, endTime) ==
    IF ~Truthy(prev.currentSession) THEN prev
    ELSE
      LET dateKey == prev.currentSession.dateKey
          start == prev.currentSession.start
          day == IF dateKey \in DOMAIN prev.days.recs
                 THEN prev.days.recs[dateKey] ELSE DayRecord(<<>>)
          newSegments == IF endTime > start
                         THEN <<[start |-> start, end |-> endTime]>> \o day.segments
                         ELSE day.segments
      IN [prev EXCEPT
            !.top = "object",
            !.days = WithDay(prev.days, dateKey, DayRecord(newSegments)),
            !.currentSession = Null("currentSession")]

\* the updater of handlePause
PauseUpdate(prev, endTime) ==
    IF ~Truthy(prev.currentSession) THEN prev
    ELSE
      LET dateKey == prev.currentSession.dateKey
          start == prev.currentSession.start
          day == IF dateKey \in DOMAIN prev.days.recs
                 THEN prev.days.recs[dateKey] ELSE DayRecord(<<>>)
          newSegments == IF endTime > start
                         THEN Append(day.segments, [start |-> start, end |-> endTime])
                         ELSE day.segments
      IN [prev EXCEPT
            !.top = "object",
            !.days = WithDay(prev.days, dateKey, DayRecord(newSegments)),
            !.currentSession = Null("currentSession")]

\* handleResetToday clearing the open session whatever its date
ResetUpdateClearingAnySession(prev, todayKey) ==
    [prev EXCEPT
        !.top = "object",
        !.days = WithDay(prev.days, todayKey, DayRecord(<<>>)),
        !.currentSession = IF Truthy(prev.currentSession)
                           THEN Null("currentSession") ELSE @]

\* handleResetToday leaving the open session as it is
ResetUpdateKeepingSession(prev, todayKey) ==
    [prev EXCEPT
        !.top = "object",
        !.days = WithDay(prev.days, todayKey, DayRecord(<<>>))]

\* the updater of handleResetToday
ResetUpdate(prev, todayKey) ==
    [prev EXCEPT
        !.top = "object",
        !.days = WithDay(prev.days, todayKey, DayRecord(<<>>)),
        !.currentSession =
            IF Truthy(prev.currentSession) /\ prev.currentSession.dateKey = todayKey
            THEN Null("currentSession") ELSE @]

-----------------------------------------------------------------------------
(* Task list and goal updaters *)

Whitespace == {" "}

RECURSIVE TrimStart(_)
TrimStart(s) ==
    IF s # <<>> /\ Head(s) \in Whitespace THEN TrimStart(Tail(s)) ELSE s

RECURSIVE TrimEnd(_)
TrimEnd(s) ==
    IF s # <<>> /\ s[Len(s)] \in Whitespace
    THEN TrimEnd(SubSeq(s, 1, Len(s) - 1)) ELSE s

\* String.prototype.trim on a string given as its characters
Trim(s) == TrimEnd(TrimStart(s))

\* Array.isArray(prev.todos) ? prev.todos : []   and   prev.todos || []
TodoItems(prev) == IF prev.todos.t = "array" THEN prev.todos.items ELSE <<>>

\* handleAddTodo building the new document without spreading prev
AddTodoUpdateWithoutSpread(prev, id, text) ==
    [getEmptyData EXCEPT
        !.todos = TodosValue("array",
                             Append(TodoItems(prev),
                                    [id |-> id, text |-> text, done |-> FALSE]))]

\* the updater of handleAddTodo
AddTodoUpdate(prev, id, text) ==
    [prev EXCEPT
        !.top = "object",
        !.todos = TodosValue("array",
                             Append(TodoItems(prev),
                                    [id |-> id, text |-> text, done |-> FALSE]))]

\* the updater of toggleTodo
ToggleUpdate(prev, id) ==
    [prev EXCEPT
        !.top = "object",
        !.todos = TodosValue("array",
                    [i \in 1..Len(TodoItems(prev)) |->
                        IF TodoItems(prev)[i].id = id
                        THEN [TodoItems(prev)[i] EXCEPT !.done = ~@]
                        ELSE TodoItems(prev)[i]])]

\* the updater of deleteTodo
DeleteUpdate(prev, id) ==
    LET Keep(todo) == todo.id # id IN
    [prev EXCEPT !.top = "object",
                 !.todos = TodosValue("array", SelectSeq(TodoItems(prev), Keep))]

\* the updater of clearCompletedTodos
ClearCompletedUpdate(prev) ==
    LET Keep(todo) == ~todo.done IN
    [prev EXCEPT !.top = "object",
                 !.todos = TodosValue("array", SelectSeq(TodoItems(prev), Keep))]

\* Number(e.target.value) for the texts the model types into a goal field
NaN == [nan |-> TRUE, n |-> 0]
NumberOf(text) ==
    CASE text = ""     -> [nan |-> FALSE, n |-> 0]
      [] text = "2"    -> [nan |-> FALSE, n |-> 2]
      [] text = "2000" -> [nan |-> FALSE, n |-> 2000]
      [] text = "-5"   -> [nan |-> FALSE, n |-> -5]
      [] OTHER         -> NaN

\* { ...getDefaultSettings(), ...(prev.settings || {}), [k]: value }
SettingsUpdate(prev, k, value) ==
    [prev EXCEPT
        !.top = "object",
        !.settings = SettingsValue("object",
            Spread(Spread(getDefaultSettings,
                          IF Truthy(prev.settings) THEN prev.settings.f ELSE NoFields),
                   k :> value))]

\* the updater of handleDailyGoalChange
DailyGoalUpdate(prev, value) ==
    SettingsUpdate(prev, "dailyGoalMinutes", Max(0, Min(24 * 60, value)))

\* the updater of handleWeeklyGoalChange
WeeklyGoalUpdate(prev, value) ==
    SettingsUpdate(prev, "weeklyGoalHours", Max(0, Min(168, value)))

-----------------------------------------------------------------------------
(* Inputs of the model *)

Days == 0..MaxDay

\* times of day the clock shows: midnight and 00:01:09
Offsets == {0, 69000}

Times == {day * MsPerDay + offset : day \in Days, offset \in Offsets}

\* time zones: UTC, one east of it without daylight saving time, and one west
\* of it that leaves daylight saving time, or enters it, during day 2
Zones ==
    { TimeZone(0, 0, 0),
      TimeZone((11 * MsPerHour) \div 2, (11 * MsPerHour) \div 2, 0),
      TimeZone(-4 * MsPerHour, -5 * MsPerHour, 2 * MsPerDay + 6 * MsPerHour),
      TimeZone(-5 * MsPerHour, -4 * MsPerHour, 2 * MsPerDay + 7 * MsPerHour) }

\* the zone of the runs in which the streak is not at issue: no handler reads it
HomeZones == {TimeZone(0, 0, 0)}

\* zones without a change of offset: UTC, UTC+05:30 and UTC-05:00
FixedZones ==
    { TimeZone(0, 0, 0),
      TimeZone((11 * MsPerHour) \div 2, (11 * MsPerHour) \div 2, 0),
      TimeZone(-5 * MsPerHour, -5 * MsPerHour, 0) }

\* what the user types into the task field and into the goal fields
TodoTexts == {<<" ">>, <<" ", "a">>}
GoalTexts == {"", "abc", "2", "2000", "-5"}

\* the ids of the tasks in the list, and an id that no task has
TodoIds(d) == {TodoItems(d)[i].id : i \in 1..Len(TodoItems(d))}
AbsentId == -1

Segment(start, end) == [start |-> start, end |-> end]

\* a document written by an earlier run
OlderDocument ==
    [ version        |-> NumberValue(2),
      days           |-> DaysValue("object",
                            0 :> DayRecord(<<Segment(0, 69000), Segment(1800000, 69000)>>)),
      currentSession |-> Null("currentSession"),
      todos          |-> TodosValue("array",
                            <<[id |-> 69000, text |-> <<"a">>, done |-> TRUE]>>),
      settings       |-> SettingsValue("object",
                            [dailyGoalMinutes |-> 2, weeklyGoalHours |-> 2]) ]

\* what window.localStorage may hold when the page is opened
Blobs ==
    { BlobValue("missing", NoFields),
      BlobValue("empty", NoFields),
      BlobValue("invalid", NoFields),
      BlobValue("null", NoFields),
      BlobValue("number", NoFields),
      BlobValue("string", NoFields),
      BlobValue("boolean", NoFields),
      BlobValue("array", NoFields),
      BlobValue("object", NoFields),
      BlobValue("object", [ days     |-> DaysValue("array", NoFields),
                            todos    |-> TodosValue("object", <<>>),
                            settings |-> SettingsValue("number", NoFields) ]),
      BlobValue("object", [ days     |-> DaysValue("string", NoFields),
                            todos    |-> Null("todos"),
                            settings |-> SettingsValue("array", NoFields) ]),
      BlobValue("object", [ days           |-> Null("days"),
                            currentSession |-> SessionValue("object", 0, 0),
                            settings       |-> SettingsValue("object",
                                                  [weeklyGoalHours |-> 2]) ]),
      BlobValue("object", OlderDocument) }

-----------------------------------------------------------------------------
(* History of the Start / Pause intents: hist.ok while they alternate, with  *)
(* strictly increasing timestamps, from the empty document and without a     *)
(* reset or a reload; hist.sum[d] is then the sum of end - start over the    *)
(* Start / Pause pairs whose Start fell on day d.                            *)

NoHistory ==
    [ok |-> FALSE, open |-> FALSE, openT |-> 0, lastT |-> -1, sum |-> [d \in Days |-> 0]]

HistStart(h, t) ==
    IF ~h.ok THEN h
    ELSE IF h.open \/ t <= h.lastT THEN NoHistory
    ELSE [h EXCEPT !.open = TRUE, !.openT = t, !.lastT = t]

HistPause(h, t) ==
    IF ~h.ok THEN h
    ELSE IF ~h.open \/ t <= h.lastT THEN NoHistory
    ELSE [h EXCEPT !.open = FALSE, !.lastT = t,
                   !.sum[getDateKey(h.openT)] = @ + (t - h.openT)]

\* an intent: the clock a Pause read, whether it passed its guard and called setData,
\* and what else it was given (the open session's start, the day, the id, the number)
Op(name, t, ran, arg) ==
    [name |-> name, t |-> t, ran |-> ran, arg |-> arg, text |-> ""]

-----------------------------------------------------------------------------
(* Construction: useState(() => loadInitialData()), useState(Date.now())     *)

InitWith(blobs, times, zones, intents) ==
    /\ store \in blobs
    /\ zone \in zones
    /\ clock \in times
    /\ data = loadInitialData(store)
    /\ now = clock
    /\ newTodoText = <<>>
    /\ view = Render(data, now, zone)
    /\ pc = "mount"
    /\ op = Op("init", 0, FALSE, 0)
    /\ hist = [NoHistory EXCEPT !.ok = (data = getEmptyData)]
    /\ fuel = intents
    /\ saved = "pending"

Init == InitWith(Blobs, {0}, HomeZones, MaxSteps)

-----------------------------------------------------------------------------
(* Handlers.  Each reads the view of the last render and the clock, and      *)
(* leaves the render and the persist effect to the wrappers below.           *)

Intent == pc = "ready" /\ fuel > 0 /\ fuel' = fuel - 1

handleStart ==
    /\ Intent
    /\ data' = IF view.isRunning THEN data
               ELSE StartUpdate(data, getDateKey(clock), clock)
    /\ op' = Op("start", 0, ~view.isRunning, 0)
    /\ hist' = HistStart(hist, clock)
    /\ UNCHANGED <<now, newTodoText, clock, zone, pc>>

handlePause ==
    /\ Intent
    /\ data' = IF ~view.isRunning THEN data ELSE PauseUpdate(data, clock)
    /\ op' = Op("pause", clock, view.isRunning, data.currentSession.start)
    /\ hist' = HistPause(hist, clock)
    /\ UNCHANGED <<now, newTodoText, clock, zone, pc>>

handleResetToday ==
    /\ Intent
    /\ \E confirmReset \in BOOLEAN :
          /\ data' = IF confirmReset THEN ResetUpdate(data, view.todayKey) ELSE data
          /\ op' = Op("reset", 0, confirmReset, view.todayKey)
          /\ hist' = IF confirmReset THEN NoHistory ELSE hist
    /\ UNCHANGED <<now, newTodoText, clock, zone, pc>>

\* onChange of the task field, then onSubmit of the form
handleAddTodo ==
    /\ Intent
    /\ Len(TodoItems(data)) < MaxTodos
    /\ \E typed \in TodoTexts :
          /\ IF Trim(typed) = <<>>
             THEN data' = data /\ newTodoText' = typed
             ELSE /\ data' = AddTodoUpdate(data, clock, Trim(typed))
                  /\ newTodoText' = <<>>
          /\ op' = Op("add", 0, Trim(typed) # <<>>, 0)
    /\ UNCHANGED <<now, clock, zone, pc, hist>>

toggleTodo ==
    /\ Intent
    /\ \E id \in TodoIds(data) \cup {AbsentId} :
          /\ data' = ToggleUpdate(data, id)
          /\ op' = Op("toggle", 0, TRUE, id)
    /\ UNCHANGED <<now, newTodoText, clock, zone, pc, hist>>

deleteTodo ==
    /\ Intent
    /\ \E id \in TodoIds(data) \cup {AbsentId} :
          /\ data' = DeleteUpdate(data, id)
          /\ op' = Op("delete", 0, TRUE, id)
    /\ UNCHANGED <<now, newTodoText, clock, zone, pc, hist>>

clearCompletedTodos ==
    /\ Intent
    /\ data' = ClearCompletedUpdate(data)
    /\ op' = Op("clear", 0, TRUE, 0)
    /\ UNCHANGED <<now, newTodoText, clock, zone, pc, hist>>

handleDailyGoalChange ==
    /\ Intent
    /\ \E text \in GoalTexts :
          /\ data' = IF NumberOf(text).nan THEN data
                     ELSE DailyGoalUpdate(data, NumberOf(text).n)
          /\ op' = [Op("daily", 0, ~NumberOf(text).nan, NumberOf(text).n)
                       EXCEPT !.text = text]
    /\ UNCHANGED <<now, newTodoText, clock, zone, pc, hist>>

handleWeeklyGoalChange ==
    /\ Intent
    /\ \E text \in GoalTexts :
          /\ data' = IF NumberOf(text).nan THEN data
                     ELSE WeeklyGoalUpdate(data, NumberOf(text).n)
          /\ op' = [Op("weekly", 0, ~NumberOf(text).nan, NumberOf(text).n)
                       EXCEPT !.text = text]
    /\ UNCHANGED <<now, newTodoText, clock, zone, pc, hist>>

-----------------------------------------------------------------------------
(* The render and the persist effect that follow a state update *)

\* the handler called setData with a new object
Updated == op'.ran /\ ~(op'.name = "pause" /\ data' = data)

\* window.localStorage.setItem inside try / catch: the item is replaced, or
\* setItem throws (quota exceeded, storage disabled) and the item stays
setItem(item, value, ok) == IF ok THEN value ELSE item

\* a storage that accepts every write, and one that may refuse
Accepting == {TRUE}
Refusing == {TRUE, FALSE}

\* useEffect(() => saveData(data), [data]) after the render of the document d:
\* it runs when data was set since it last ran
PersistEffect(d, changed, outcomes) ==
    IF changed
    THEN \E ok \in outcomes :
            /\ store' = setItem(store, saveData(d), ok)
            /\ saved' = IF ok THEN "written" ELSE "failed"
    ELSE UNCHANGED <<store, saved>>

\* React re-renders before the next event: the handlers of the next event
\* close over the new state, and the persist effect runs
Commit ==
    /\ view' = Render(data', now', zone)
    /\ PersistEffect(data', Updated, Accepting)

Start == handleStart /\ Commit
Pause == handlePause /\ Commit
ResetToday == handleResetToday /\ Commit
AddTodo == handleAddTodo /\ Commit
ToggleTodo == toggleTodo /\ Commit
DeleteTodo == deleteTodo /\ Commit
ClearCompleted == clearCompletedTodos /\ Commit
DailyGoalChange == handleDailyGoalChange /\ Commit
WeeklyGoalChange == handleWeeklyGoalChange /\ Commit

\* the effects of the first render without the persist effect
MountOnWithoutSave(outcomes) ==
    /\ pc = "mount"
    /\ pc' = "ready"
    /\ saved' = "written"
    /\ UNCHANGED <<store, data, now, newTodoText, view, clock, zone, op, hist, fuel>>

\* the effects of the first render: the interval is set and the document saved
MountOn(outcomes) ==
    /\ pc = "mount"
    /\ pc' = "ready"
    /\ PersistEffect(data, TRUE, outcomes)
    /\ UNCHANGED <<data, now, newTodoText, view, clock, zone, op, hist, fuel>>

Mount == MountOn(Accepting)

\* the interval's callback: setNow(Date.now())
Tick ==
    /\ pc = "ready"
    /\ now' = clock
    /\ view' = Render(data, now', zone)
    /\ UNCHANGED <<store, data, newTodoText, clock, zone, pc, op, hist, fuel, saved>>

\* time passes, or the system clock is set
AdvanceWithin(times) ==
    /\ \E t \in times \ {clock} : clock' = t
    /\ UNCHANGED <<store, data, now, newTodoText, view, pc, op, hist, fuel, zone, saved>>

ClockAdvance == AdvanceWithin(Times)

\* the page is reloaded: the component is constructed again from the store
Restart ==
    /\ pc = "ready"
    /\ data' = loadInitialData(store)
    /\ now' = clock
    /\ newTodoText' = <<>>
    /\ view' = Render(data', now', zone)
    /\ pc' = "mount"
    /\ op' = Op("load", 0, TRUE, 0)
    /\ hist' = NoHistory
    /\ saved' = "pending"
    /\ UNCHANGED <<store, clock, zone, fuel>>

Next ==
    \/ Mount
    \/ Tick
    \/ ClockAdvance
    \/ Restart
    \/ Start
    \/ Pause
    \/ ResetToday
    \/ AddTodo
    \/ ToggleTodo
    \/ DeleteTodo
    \/ ClearCompleted
    \/ DailyGoalChange
    \/ WeeklyGoalChange

Spec == Init /\ [][Next]_vars

-----------------------------------------------------------------------------
(* The timer alone: the session lifecycle, the clock and the reload *)

InitTimer == InitWith(Blobs, {0}, HomeZones, MaxTimerSteps)

NextTimer ==
    \/ Mount
    \/ Tick
    \/ ClockAdvance
    \/ Restart
    \/ Start
    \/ Pause
    \/ ResetToday

SpecTimer == InitTimer /\ [][NextTimer]_vars

-----------------------------------------------------------------------------
(* Deferred rendering: state updates queued by the handlers and by the tick  *)
(* are rendered later, in one batch (updates batched by React, as inside     *)
(* act() or unstable_batchedUpdates).  Until the render, the handlers are    *)
(* those of the previous render and close over its isRunning and todayKey.   *)

\* setData(...) queued: the render and the persist effect are still to come
Deferred ==
    /\ saved' = IF Updated THEN "pending" ELSE saved
    /\ UNCHANGED <<view, store>>

StartDeferred == handleStart /\ Deferred

\* a tick that also saves the document
TickDeferredSaving ==
    /\ pc = "ready"
    /\ now' = clock
    /\ store' = saveData(data)
    /\ saved' = "written"
    /\ UNCHANGED <<data, newTodoText, view, clock, zone, pc, op, hist, fuel>>

\* setNow(Date.now()), rendered later
TickDeferred ==
    /\ pc = "ready"
    /\ now' = clock
    /\ UNCHANGED <<store, data, newTodoText, view, clock, zone, pc, op, hist, fuel, saved>>

\* the render of the queued updates, and the persist effect after it
RerenderOn(outcomes) ==
    /\ pc = "ready"
    /\ view' = Render(data, now, zone)
    /\ PersistEffect(data, saved = "pending", outcomes)
    /\ UNCHANGED <<data, now, newTodoText, clock, zone, pc, op, hist, fuel>>

Rerender == RerenderOn(Accepting)

InitBatch == InitWith(Blobs, {0}, HomeZones, MaxSteps)

NextBatch ==
    \/ Mount
    \/ ClockAdvance
    \/ TickDeferred
    \/ Rerender
    \/ StartDeferred

SpecBatch == InitBatch /\ [][NextBatch]_vars

-----------------------------------------------------------------------------
(* The streak alone: the page is opened on day StreakToday over a document   *)
(* with a record for that day and each of the MaxStreakDays days before it,  *)
(* and the streak is computed by each render.                                *)

StreakToday == MaxStreakDays + 1
StreakDays == (StreakToday - MaxStreakDays)..StreakToday
\* times of that day: midnight, 00:01:09 and 00:30:00
StreakTimes == {StreakToday * MsPerDay + offset : offset \in {0, 69000, 1800000}}

\* minutes studied on a day; 0 stands for a record without segments
DayMinutes == {0, 10, 35, 40, 50}

StreakDocument(minutes, running) ==
    [ version        |-> NumberValue(3),
      days           |-> DaysValue("object",
                            [k \in StreakDays |->
                               DayRecord(IF minutes[k] = 0 THEN <<>>
                                         ELSE <<Segment(k * MsPerDay,
                                                        k * MsPerDay
                                                          + minutes[k] * 60 * 1000)>>)]),
      currentSession |-> IF running
                         THEN SessionValue("object", StreakToday, StreakToday * MsPerDay)
                         ELSE Null("currentSession"),
      todos          |-> TodosValue("array", <<>>),
      settings       |-> SettingsValue("object", getDefaultSettings) ]

StreakBlobs ==
    { BlobValue("object", StreakDocument(minutes, running)) :
         minutes \in [StreakDays -> DayMinutes], running \in BOOLEAN }

InitStreak == InitWith(StreakBlobs, StreakTimes, Zones, 0)

ClockAdvanceToday == AdvanceWithin(StreakTimes)

NextStreak ==
    \/ Mount
    \/ Tick
    \/ ClockAdvanceToday

SpecStreak == InitStreak /\ [][NextStreak]_vars

-----------------------------------------------------------------------------
(* Reset-today over a streak: the documents of the streak with 0 or 35       *)
(* minutes on each day and no session, a session open since the start of     *)
(* today, or one open since the start of yesterday; the intent is Reset-today. *)

ResetSessions ==
    { Null("currentSession"),
      SessionValue("object", StreakToday, StreakToday * MsPerDay),
      SessionValue("object", StreakToday - 1, (StreakToday - 1) * MsPerDay) }

ResetBlobs ==
    { BlobValue("object",
                [StreakDocument(minutes, FALSE) EXCEPT !.currentSession = session]) :
         minutes \in [StreakDays -> {0, 35}], session \in ResetSessions }

InitReset == InitWith(ResetBlobs, StreakTimes, Zones, MaxResetSteps)

NextReset ==
    \/ Mount
    \/ Tick
    \/ ClockAdvanceToday
    \/ ResetToday

SpecReset == InitReset /\ [][NextReset]_vars

-----------------------------------------------------------------------------
(* The first visit: nothing is stored, the page starts from the empty        *)
(* document, and the whole application runs.                                 *)

FreshBlobs == {BlobValue("missing", NoFields)}

InitFresh == InitWith(FreshBlobs, {0}, HomeZones, MaxSteps)

SpecFresh == InitFresh /\ [][Next]_vars

-----------------------------------------------------------------------------
(* Persistence: rendering is deferred as above, every handler queues its     *)
(* update, and the storage may refuse a write.  React always gets to render  *)
(* queued updates and to run the effects of a render.                        *)

PauseDeferred == handlePause /\ Deferred
ResetTodayDeferred == handleResetToday /\ Deferred
AddTodoDeferred == handleAddTodo /\ Deferred
ToggleTodoDeferred == toggleTodo /\ Deferred
DeleteTodoDeferred == deleteTodo /\ Deferred
ClearCompletedDeferred == clearCompletedTodos /\ Deferred
DailyGoalChangeDeferred == handleDailyGoalChange /\ Deferred
WeeklyGoalChangeDeferred == handleWeeklyGoalChange /\ Deferred

MountPersist == MountOn(Refusing)
RerenderPersist == RerenderOn(Refusing)
ClockAdvancePersist == AdvanceWithin(Offsets)

InitPersist == InitWith(FreshBlobs, {0}, HomeZones, MaxSteps)

NextPersist ==
    \/ MountPersist
    \/ RerenderPersist
    \/ ClockAdvancePersist
    \/ TickDeferred
    \/ StartDeferred
    \/ PauseDeferred
    \/ ResetTodayDeferred
    \/ AddTodoDeferred
    \/ ToggleTodoDeferred
    \/ DeleteTodoDeferred
    \/ ClearCompletedDeferred
    \/ DailyGoalChangeDeferred
    \/ WeeklyGoalChangeDeferred

SpecPersist ==
    /\ InitPersist
    /\ [][NextPersist]_vars
    /\ WF_vars(MountPersist)
    /\ WF_vars(RerenderPersist)

-----------------------------------------------------------------------------
(* The timer in a browser whose local time is at a fixed offset from UTC *)

InitZones == InitWith(FreshBlobs, {0}, FixedZones, MaxSteps)

SpecZones == InitZones /\ [][NextTimer]_vars

-----------------------------------------------------------------------------
(* The start of the page over whatever the store holds, with a storage that  *)
(* may refuse a write: persistence as above, and the reload.                 *)

InitStart == InitWith(Blobs, {0}, HomeZones, MaxStartSteps)

NextStart ==
    \/ NextPersist
    \/ Restart

SpecStart ==
    /\ InitStart
    /\ [][NextStart]_vars
    /\ WF_vars(MountPersist)
    /\ WF_vars(RerenderPersist)

-----------------------------------------------------------------------------
(* The history alone: the page is opened on day MaxHistoryDays over a        *)
(* document with records for some of the days 0 .. MaxHistoryDays, day k     *)
(* holding one segment of k + 1 minutes, and a session that may be open      *)
(* since the first or the last of these days.                                *)

HistoryDays == 0..MaxHistoryDays
HistoryTimes == {MaxHistoryDays * MsPerDay + offset : offset \in Offsets}

HistoryDocument(keys, session) ==
    [ version        |-> NumberValue(3),
      days           |-> DaysValue("object",
                            [k \in keys |->
                               DayRecord(<<Segment(k * MsPerDay,
                                                   k * MsPerDay + (k + 1) * 60 * 1000)>>)]),
      currentSession |-> session,
      todos          |-> TodosValue("array", <<>>),
      settings       |-> SettingsValue("object", getDefaultSettings) ]

HistoryBlobs ==
    { BlobValue("object", HistoryDocument(keys, session)) :
         keys \in SUBSET HistoryDays,
         session \in { Null("currentSession"),
                       SessionValue("object", 0, 0),
                       SessionValue("object", MaxHistoryDays,
                                    MaxHistoryDays * MsPerDay) } }

InitHistory == InitWith(HistoryBlobs, HistoryTimes, HomeZones, 0)

ClockAdvanceHistory == AdvanceWithin(HistoryTimes)

NextHistory ==
    \/ Mount
    \/ Tick
    \/ ClockAdvanceHistory

SpecHistory == InitHistory /\ [][NextHistory]_vars

-----------------------------------------------------------------------------
(* Claims *)

\* the segments stored for a day, none when the day has no record
SegmentsOf(d, dateKey) ==
    IF HasDay(d, dateKey) THEN d.days.recs[dateKey].segments ELSE <<>>

\* the days a document or the clock can name, and one day on either side
DateKeys == (-1)..(MaxDay + 1)

PairedSum(dateKey) == IF dateKey \in Days THEN hist.sum[dateKey] ELSE 0

C2_StartWhileOpenIsNoOp ==
    [][(fuel' = fuel - 1 /\ op'.name = "start" /\ Truthy(data.currentSession))
          => data' = data]_vars

\* C3: while a session is open, the total of the session's date is the sum of
\* max(0, end - start) over that date's stored segments plus
\* max(0, now - currentSession.start), for every document the engine holds,
\* loaded ones included; and for that document the total does not decrease as
\* now increases.
C3_OpenSessionCountsLive ==
    Truthy(data.currentSession) =>
        LET dateKey == data.currentSession.dateKey IN
        /\ getTotalMsForDate(data, dateKey, now)
              = SumSegments(SegmentsOf(data, dateKey))
                + Max(0, now - data.currentSession.start)
        /\ \A t1, t2 \in Times :
              t1 <= t2 => getTotalMsForDate(data, dateKey, t1)
                             <= getTotalMsForDate(data, dateKey, t2)

\* a Pause intent issued while running, a confirmed Reset-today intent
PauseStep == fuel' = fuel - 1 /\ op'.name = "pause" /\ op'.ran
ResetStep == fuel' = fuel - 1 /\ op'.name = "reset" /\ op'.ran

\* C4: a Pause issued while running whose end timestamp is equal to or less
\* than the session's start appends no segment to any day record and still
\* clears currentSession.
C4_EmptyPauseAppendsNothing ==
    [][(PauseStep /\ clock <= data.currentSession.start)
          => /\ \A dateKey \in DateKeys :
                   SegmentsOf(data', dateKey) = SegmentsOf(data, dateKey)
             /\ data'.currentSession = Null("currentSession")]_vars

\* a Pause that read a clock earlier than the start of the session it closed
C4_Witness ==
    /\ op.name = "pause" /\ op.ran
    /\ op.t < op.arg
    /\ ~Truthy(data.currentSession)

\* C5: Reset-today empties the segment list of today's date key; an open
\* session of today is cleared without becoming a segment, an open session of
\* another date is left as it is; the segment lists of all other date keys are
\* left unchanged.
C5_ResetTodayFrame ==
    [][ResetStep
          => LET today == getDateKey(now) IN
             /\ HasDay(data', today)
             /\ SegmentsOf(data', today) = <<>>
             /\ \A dateKey \in DateKeys \ {today} :
                   SegmentsOf(data', dateKey) = SegmentsOf(data, dateKey)
             /\ data'.currentSession =
                   IF Truthy(data.currentSession)
                      /\ data.currentSession.dateKey = today
                   THEN Null("currentSession")
                   ELSE data.currentSession]_vars

\* a Reset-today on day 1 that left open a session started on day 0, whose
\* day keeps its segments
C5_Witness ==
    /\ op.name = "reset" /\ op.ran
    /\ op.arg = 1
    /\ Truthy(data.currentSession) /\ data.currentSession.dateKey = 0
    /\ SegmentsOf(data, 0) # <<>>
    /\ SegmentsOf(data, 1) = <<>>

\* the total of the date is at least 30 minutes
Qualifies(d, t, dateKey) == getTotalMsForDate(d, dateKey, t) >= 30 * 60 * 1000

\* the largest k in 0..365 such that the k consecutive days ending at today
\* qualify; a day that qualifies has a record, so k is at most their number
LongestRun(d, t) ==
    LET today == getDateKey(t)
        runs == {k \in 0..Min(365, Cardinality(DOMAIN d.days.recs)) :
                    \A j \in 0..(k - 1) : Qualifies(d, t, today - j)}
    IN CHOOSE k \in runs : \A j \in runs : j <= k

\* C6: the streak is the largest k in 0..365 such that each of the k
\* consecutive calendar days ending at and including today has a total of at
\* least 30 minutes; it is 0 whenever today's live total is below that.
C6_StreakIsLongestRun ==
    /\ view.currentStreak = LongestRun(data, now)
    /\ ~Qualifies(data, now, getDateKey(now)) => view.currentStreak = 0

RECURSIVE TimesOver(_, _, _)
\* m * r as quotient and remainder by g, for 0 <= r < g, one bit of m at a time
TimesOver(m, r, g) ==
    IF m = 0 THEN [q |-> 0, rem |-> 0]
    ELSE LET half == TimesOver(m \div 2, r, g)
             rest == 2 * half.rem + (m % 2) * r
         IN [q |-> 2 * half.q + rest \div g, rem |-> rest % g]

\* min(100, round(100 * total / goal)) in exact arithmetic, halves rounded up
ExactPct(total, goal) ==
    IF total >= goal THEN 100
    ELSE LET p == TimesOver(100, total, goal)
         IN Min(100, p.q + (IF 2 * p.rem >= goal THEN 1 ELSE 0))

PctAsClaimed(pct, total, goal) ==
    /\ pct \in 0..100
    /\ goal > 0 => pct = ExactPct(total, goal)
    /\ (goal > 0 /\ total >= goal) => pct = 100
    /\ goal = 0 => pct = 0

\* C7: the daily and weekly progress percentages are integers in 0..100, equal
\* to min(100, round(100 * total / goalMs)) when the goal is positive, exactly
\* 100 whenever total >= goal > 0, and exactly 0 when the goal is 0.
C7_ProgressIsRoundedShare ==
    /\ PctAsClaimed(dailyProgress(data, now), todayTotalMs(data, now), dailyGoalMs(data))
    /\ PctAsClaimed(weeklyProgress(data, now), weeklyTotalMs(data, now), weeklyGoalMs(data))

\* C8: for every document the engine reaches, saving it and then loading it
\* yields an identical document, and loading is idempotent: loading what was
\* saved from a load yields the document of the first load.
C8_SaveLoadRoundTrip ==
    /\ loadInitialData(saveData(data)) = data
    /\ LET first == loadInitialData(store)
       IN loadInitialData(saveData(first)) = first

\* a page load that found an open session, a task, stored segments and goals
\* that are not the defaults
C8_Witness ==
    /\ op.name = "load"
    /\ data = loadInitialData(store)
    /\ Truthy(data.currentSession)
    /\ TodoItems(data) # <<>>
    /\ \E dateKey \in DOMAIN data.days.recs : SegmentsOf(data, dateKey) # <<>>
    /\ data.settings.f # getDefaultSettings

\* blobs that are missing, empty, unparseable, or parse to a value that is
\* not an object (typeof)
UnusableKinds == {"missing", "empty", "invalid", "null", "number", "string", "boolean"}

\* C9: loading a blob that is missing, empty, unparseable, or parses to a
\* non-object value yields exactly the empty document: days = {},
\* currentSession = null, todos = [], dailyGoalMinutes = 240 and
\* weeklyGoalHours = 20.
C9_UnusableBlobLoadsEmpty ==
    store.kind \in UnusableKinds =>
        /\ data = loadInitialData(store)
        /\ data.top = "object"
        /\ data.days = [t |-> "object", recs |-> NoFields]
        /\ data.currentSession.t = "null"
        /\ data.todos = [t |-> "array", items |-> <<>>]
        /\ data.settings =
              [t |-> "object", f |-> [dailyGoalMinutes |-> 240, weeklyGoalHours |-> 20]]

\* the page opened over a blob that is not JSON
C9_Witness ==
    /\ store.kind = "invalid"
    /\ pc = "mount" /\ op.name = "init"
    /\ ~view.isRunning /\ view.currentStreak = 0

\* the member of the stored object, undefined when it has none
Member(k) == IF k \in DOMAIN store.o THEN store.o[k] ELSE Undefined(k)

\* C10: loading a parseable object blob whose days, todos or settings is
\* missing or of the wrong type (not a mapping, not a sequence, not a record)
\* replaces that field with its default ({}; []; the default settings, missing
\* settings fields filled individually) and keeps the other fields; days is a
\* mapping after every load.
C10_MalformedFieldsRepaired ==
    LET loaded == loadInitialData(store) IN
    /\ store.kind = "object" =>
          /\ loaded.days = IF Member("days").t = "object" THEN Member("days")
                           ELSE DaysValue("object", NoFields)
          /\ loaded.todos = IF Member("todos").t = "array" THEN Member("todos")
                            ELSE TodosValue("array", <<>>)
          /\ loaded.settings =
                IF Member("settings").t = "object"
                THEN SettingsValue("object",
                                   Spread(getDefaultSettings, Member("settings").f))
                ELSE SettingsValue("object", getDefaultSettings)
          /\ loaded.currentSession = Member("currentSession")
    /\ op.name \in {"init", "load"} => data.days.t = "object"

\* every segment stored in every day record of the document
StoredSegments(d) ==
    UNION { {SegmentsOf(d, dateKey)[i] : i \in 1..Len(SegmentsOf(d, dateKey))} :
               dateKey \in DOMAIN d.days.recs }

\* C11: in every state reached from the empty document by Start, Pause,
\* Reset-today, ticks and task / goal edits, whatever the clock does (stalling
\* or moving backwards included), every stored segment has end > start.
C11_SegmentsArePositive ==
    \A segment \in StoredSegments(data) : segment.end > segment.start

\* a Pause has stored a segment, and the clock has since been set back to
\* before the start of that segment
C11_Witness ==
    /\ op.name = "pause" /\ op.ran
    /\ StoredSegments(data) # {}
    /\ \A segment \in StoredSegments(data) : clock < segment.start

\* C12: in every state reached by Start, Pause, Reset-today and load,
\* whenever currentSession is present, days holds a day record under
\* currentSession.dateKey.
C12_SessionHasDayRecord ==
    Truthy(data.currentSession) => HasDay(data, data.currentSession.dateKey)

\* C13: after any sequence of add, toggle, delete and clear-completed, the
\* ids of the tasks are pairwise distinct, also when two adds read the same
\* clock timestamp.
C13_TodoIdsAreDistinct ==
    \A i, j \in 1..Len(TodoItems(data)) :
        i # j => TodoItems(data)[i].id # TodoItems(data)[j].id

\* the keys of days, and the 7 most recent of them
RecordedKeys == DOMAIN data.days.recs
RecentKeys == {k \in RecordedKeys : Cardinality({j \in RecordedKeys : j > k}) < 7}

RECURSIVE TotalOver(_)
\* the sum of the totals of the dates in keys
TotalOver(keys) ==
    IF keys = {} THEN 0
    ELSE LET k == CHOOSE j \in keys : TRUE
         IN getTotalMsForDate(data, k, now) + TotalOver(keys \ {k})

\* C14: the history lists the date keys of days in strictly descending order,
\* has min(7, number of keys) entries without duplicates, and the weekly total
\* is the sum of the totals of exactly those entries; keys beyond the 7 most
\* recent contribute nothing.
C14_HistoryIsSevenMostRecent ==
    LET items == view.historyItems IN
    /\ Len(items) = Min(7, Cardinality(RecordedKeys))
    /\ \A i \in 1..(Len(items) - 1) : items[i].dateKey > items[i + 1].dateKey
    /\ {items[i].dateKey : i \in 1..Len(items)} = RecentKeys
    /\ \A i \in 1..Len(items) :
          items[i].totalMs = getTotalMsForDate(data, items[i].dateKey, now)
    /\ view.weeklyTotalMs = TotalOver(RecentKeys)

\* every day has a record, and a session is open since a day that is not
\* among the 7 most recent
C14_Witness ==
    /\ pc = "ready"
    /\ Cardinality(RecordedKeys) > 8
    /\ Truthy(data.currentSession)
    /\ data.currentSession.dateKey \in RecordedKeys \ RecentKeys
    /\ now > data.currentSession.start
    /\ view.weeklyTotalMs > 0

\* the inputs that are numbers, with their values
Numerals == ("2" :> 2) @@ ("2000" :> 2000) @@ ("-5" :> -5)

\* an edit of the goal input called name
GoalEditStep(name) == fuel' = fuel - 1 /\ op'.name = name

\* what the edit of a goal with bound top must leave in the field k
GoalEditEffect(k, top) ==
    IF op'.text \in DOMAIN Numerals
    THEN /\ Truthy(data'.settings)
         /\ data'.settings.f =
               [data.settings.f EXCEPT ![k] = Max(0, Min(top, Numerals[op'.text]))]
    ELSE data'.settings = data.settings

\* C15: from the default settings, after any sequence of goal edits
\* dailyGoalMinutes is an integer in 0..1440 and weeklyGoalHours an integer in
\* 0..168; an edit whose input is not a number (empty input included) leaves
\* settings unchanged, and an out-of-range number is stored as the nearest
\* bound.
C15_GoalEditsClampOrIgnore ==
    /\ [](/\ Truthy(data.settings)
          /\ data.settings.f["dailyGoalMinutes"] \in 0..(24 * 60)
          /\ data.settings.f["weeklyGoalHours"] \in 0..168)
    /\ [][/\ GoalEditStep("daily") => GoalEditEffect("dailyGoalMinutes", 24 * 60)
          /\ GoalEditStep("weekly") => GoalEditEffect("weeklyGoalHours", 168)]_vars

\* C16: after every mutation of the in-memory document the persist effect
\* eventually runs and overwrites the store with the full current document;
\* whenever no mutation is pending and the last write succeeded the stored
\* blob is the in-memory document; a failed write leaves the in-memory
\* document (and the store) as they were, and is not retried.
C16_StoreFollowsDocument ==
    /\ (saved = "pending")
          ~> \/ saved = "written" /\ store = JSONstringify(data)
             \/ saved = "failed"
    /\ [](saved = "written" => store = JSONstringify(data))
    /\ [][saved' = "failed" /\ saved # "failed" => data' = data /\ store' = store]_vars
    /\ [][saved = "failed" => store' = store]_vars

\* a write failed after a mutation: the store is behind the document in memory
C16_Witness ==
    /\ saved = "failed"
    /\ op.ran
    /\ store # JSONstringify(data)
    /\ loadInitialData(store) # data

\* the ordinal of the local calendar day in which the timestamp t falls
LocalDay(z, t) == LocalTime(z, t) \div MsPerDay

\* C17: for every timestamp and every fixed offset of local time from UTC,
\* the date key derived for the timestamp (today's key, which also starts the
\* streak walk, and the key Start gives the session) is the local calendar
\* day in which the timestamp falls.
C17_DateKeyIsLocalDay ==
    zone.before = zone.after
        => /\ view.todayKey = LocalDay(zone, now)
           /\ (Truthy(data.currentSession) /\ op.name = "start" /\ op.ran)
                 => data.currentSession.dateKey
                        = LocalDay(zone, data.currentSession.start)

\* C18: a Pause issued while running with end > start appends exactly one
\* segment {start: currentSession.start, end} at the end of the segment list
\* of currentSession.dateKey (the day the session started, also when the
\* pause happens on a later day), leaves that day's earlier segments and
\* every other day record unchanged, and clears currentSession.
C18_PauseAppendsOneSegment ==
    [][(PauseStep /\ clock > data.currentSession.start)
          => LET dateKey == data.currentSession.dateKey
                 start == data.currentSession.start
             IN /\ HasDay(data', dateKey)
                /\ SegmentsOf(data', dateKey)
                      = Append(SegmentsOf(data, dateKey), Segment(start, clock))
                /\ \A other \in DateKeys \ {dateKey} :
                      /\ HasDay(data', other) = HasDay(data, other)
                      /\ SegmentsOf(data', other) = SegmentsOf(data, other)
                /\ data'.currentSession = Null("currentSession")]_vars

\* a Pause on day 1 of a session started on day 0, whose day already had
\* segments: the new segment is the last of day 0 and day 1 has none
C18_Witness ==
    /\ op.name = "pause" /\ op.ran
    /\ getDateKey(op.t) = 1
    /\ getDateKey(op.arg) = 0
    /\ Len(SegmentsOf(data, 0)) > 2
    /\ SegmentsOf(data, 0)[Len(SegmentsOf(data, 0))] = Segment(op.arg, op.t)
    /\ SegmentsOf(data, 1) = <<>>

\* C19: the date key that Reset-today clears is the calendar date of the
\* clock at the moment the reset is applied, for every interleaving of clock
\* advance, tick and Reset-today: a Reset-today applied after the clock has
\* passed midnight and before the next tick clears the new day's segments and
\* not the previous day's.
C19_ResetClearsDateOfClock ==
    [][ResetStep
          => LET today == getDateKey(clock) IN
             /\ HasDay(data', today)
             /\ SegmentsOf(data', today) = <<>>
             /\ \A dateKey \in DateKeys \ {today} :
                   SegmentsOf(data', dateKey) = SegmentsOf(data, dateKey)]_vars

\* a todo intent called name
TodoStep(name) == fuel' = fuel - 1 /\ op'.name = name

\* the list without its i-th task
Without(todos, i) == SubSeq(todos, 1, i - 1) \o SubSeq(todos, i + 1, Len(todos))

\* C20: Toggle(id) flips done of the task with that id and changes nothing
\* else, delete(id) removes the task with that id and nothing else, and
\* clear-completed removes exactly the tasks with done = true; the remaining
\* tasks keep their text, done flag and relative order, and an id present in
\* no task leaves todos unchanged.
C20_TodoEditsTouchOneTask ==
    [][LET todos == TodoItems(data)
           id == op'.arg
           Kept(todo) == ~todo.done
       IN /\ TodoStep("toggle") =>
                IF id \in TodoIds(data)
                THEN \E i \in 1..Len(todos) :
                        /\ todos[i].id = id
                        /\ TodoItems(data') = [todos EXCEPT ![i].done = ~@]
                ELSE TodoItems(data') = todos
          /\ TodoStep("delete") =>
                IF id \in TodoIds(data)
                THEN \E i \in 1..Len(todos) :
                        /\ todos[i].id = id
                        /\ TodoItems(data') = Without(todos, i)
                ELSE TodoItems(data') = todos
          /\ TodoStep("clear") => TodoItems(data') = SelectSeq(todos, Kept)]_vars

\* C21: immediately after any Reset-today the total of today's date key at
\* now is 0 and the computed streak is 0, whether or not a session was open
\* and whichever date the open session belonged to.
C21_ResetZeroesTodayAndStreak ==
    [][ResetStep
          => /\ getTotalMsForDate(data', view'.todayKey, now') = 0
             /\ computeCurrentStreak(data', now', zone) = 0
             /\ view'.currentStreak = 0]_vars

\* after a Reset-today that kept a session open since yesterday, yesterday
\* and the day before are productive days and the streak is 0
C21_Witness ==
    /\ op.name = "reset" /\ op.ran
    /\ Truthy(data.currentSession)
    /\ data.currentSession.dateKey = view.todayKey - 1
    /\ \A dateKey \in {view.todayKey - 1, view.todayKey - 2} :
          getTotalMsForDate(data, dateKey, now)
             >= PRODUCTIVE_MINUTES_FOR_STREAK * 60 * 1000
    /\ view.currentStreak = 0

\* the intents of the timer, and those of the task list and the goals
TimerIntents == {"start", "pause", "reset"}
ListIntents == {"add", "toggle", "delete", "clear", "daily", "weekly"}

\* C22: timer and todo/settings state are independent: Start, Pause and
\* Reset-today never change todos or settings, and add, toggle, delete,
\* clear-completed and the goal edits never change days or currentSession.
C22_TimerAndListsAreIndependent ==
    [][fuel' = fuel - 1
          => /\ op'.name \in TimerIntents
                   => data'.todos = data.todos /\ data'.settings = data.settings
             /\ op'.name \in ListIntents
                   => /\ data'.days = data.days
                      /\ data'.currentSession = data.currentSession]_vars

\* a Pause issued while running, over a document with segments, with tasks
\* and with goals that are not the default ones
C22_Witness ==
    /\ op.name = "pause" /\ op.ran
    /\ StoredSegments(data) # {}
    /\ TodoItems(data) # <<>>
    /\ data.settings # getEmptyData.settings

\* the interval's callback ran and set a new now
TickStep == pc = "ready" /\ pc' = "ready" /\ now' # now

\* C23: a clock tick changes only now: it leaves days, currentSession, todos
\* and settings unchanged and causes no write to the store, so that derived
\* totals change between two ticks only through now.
C23_TickChangesOnlyNow ==
    [][TickStep
          => /\ now' = clock
             /\ data' = data
             /\ store' = store /\ saved' = saved
             /\ \A dateKey \in DateKeys :
                   getTotalMsForDate(data', dateKey, now')
                      = getTotalMsForDate(data, dateKey, now')]_vars

\* a tick has set now to 00:01:09 while a session is open and the last write
\* of the document had failed: the total moved with now, the store did not
C23_Witness ==
    /\ pc = "ready"
    /\ now = 69000 /\ clock = now
    /\ Truthy(data.currentSession)
    /\ getTotalMsForDate(data, data.currentSession.dateKey, now) > 0
    /\ saved = "failed"
    /\ store # JSONstringify(data)

\* the effects of the first render after the page was constructed
StartStep == pc = "mount" /\ pc' = "ready"

\* no intent is applied before the effects of the first render have run, and
\* these always run
IntentsFollowStart ==
    /\ [][fuel' = fuel - 1 => pc = "ready"]_vars
    /\ (pc = "mount") ~> (pc = "ready")

\* the store after a start is the document the load produced, which for a
\* blob that is not JSON is the empty document and not that blob
StoreIsLoadedDocument ==
    /\ store' = JSONstringify(loadInitialData(store))
    /\ data' = loadInitialData(store)
    /\ store.kind = "invalid"
          => store' = JSONstringify(getEmptyData) /\ store' # store

\* C24: on process start the store is overwritten with the document produced
\* by load before any user intent is applied; after a start in which the
\* stored blob was unparseable the store holds the empty document and the
\* earlier blob is no longer in the store.
C24_StartOverwritesStore ==
    /\ IntentsFollowStart
    /\ [][StartStep => StoreIsLoadedDocument]_vars

\* C24 as amended: the same, unless the write of the start fails; the store
\* then keeps the earlier blob, unparseable or not, and the document in
\* memory is still the one the load produced.
C24_StartOverwritesStoreUnlessWriteFails ==
    /\ IntentsFollowStart
    /\ [][StartStep
            => \/ saved' = "written" /\ StoreIsLoadedDocument
               \/ /\ saved' = "failed"
                  /\ store' = store
                  /\ data' = loadInitialData(store)]_vars

\* the page has started over a blob that is not JSON and the write failed:
\* the document in memory is the empty one, the store still holds the blob,
\* and no intent has been applied
C24_Witness ==
    /\ pc = "ready" /\ op.name = "init"
    /\ saved = "failed"
    /\ store.kind = "invalid"
    /\ data = getEmptyData

====
